---- MODULE Spec2Model ----
(***************************************************************************)
(* Hydraulic head profiles of src/src/fluido.py.                           *)
(*                                                                         *)
(* Numbers.  Python floats are modelled as exact rationals <<n, d>> in     *)
(* lowest terms with d > 0 (rounding is not modelled).  Positions along    *)
(* the route are integers.  Every generator is homogeneous of degree one   *)
(* in its lengths (positions, elevations, pressures in metres of column,   *)
(* pump heads, safety margin), so lengths are counted in units of 1e-6:    *)
(* the offset 1e-6 of agregar_bomba / generar_perfil_presion is then one   *)
(* unit (EPS).  Densities, viscosities, velocities, diameters and G keep   *)
(* their own units.                                                        *)
(***************************************************************************)
EXTENDS Integers, Sequences, FiniteSets, TLC

\* ------------------------------------------------------------------------
\* Bounds of the model
\* ------------------------------------------------------------------------
MaxSegs == 2

MaxBombas == 2

MaxPumpX == 3

\* ------------------------------------------------------------------------
\* Exact rational arithmetic (the model of float arithmetic)
\* ------------------------------------------------------------------------
Abs(n) == IF n < 0 THEN -n ELSE n

RECURSIVE GCD(_, _)
GCD(a, b) == IF b = 0 THEN a ELSE GCD(b, a % b)

LCM(a, b) == (a \div GCD(a, b)) * b

Norm(n, d) ==
    LET g == GCD(Abs(n), Abs(d))
        s == IF d < 0 THEN -1 ELSE 1
    IN  <<s * (n \div g), s * (d \div g)>>

R(n) == <<n, 1>>

RAdd(a, b) ==
    LET l == LCM(a[2], b[2])
    IN  Norm(a[1] * (l \div a[2]) + b[1] * (l \div b[2]), l)

RNeg(a) == <<-a[1], a[2]>>

RSub(a, b) == RAdd(a, RNeg(b))

RMul(a, b) ==
    LET p == Norm(a[1], b[2])
        q == Norm(b[1], a[2])
    IN  Norm(p[1] * q[1], p[2] * q[2])

RInv(a) == Norm(a[2], a[1])

RDiv(a, b) == RMul(a, RInv(b))

RSign(a) == IF a[1] > 0 THEN 1 ELSE IF a[1] < 0 THEN -1 ELSE 0

RLess(a, b) == RSign(RSub(a, b)) < 0

RLeq(a, b) == RSign(RSub(a, b)) <= 0

RSq(a) == RMul(a, a)

\* math.sqrt on the integers the terrains of the model produce (perfect squares)
Sqrt(n) == CHOOSE r \in 0..n : r * r = n

\* src/src/constantes.py: G = 9.81
G == <<981, 100>>

\* the offset 1e-6 of "np.interp(x_b - 1e-6, ...)", one length unit
EPS == 1

\* laminar / turbulent threshold of the Reynolds number
ReLaminar == 2000

\* ------------------------------------------------------------------------
\* List helpers (Python list operations)
\* ------------------------------------------------------------------------
Last(s) == s[Len(s)]

Reverse(s) == [k \in 1..Len(s) |-> s[Len(s) + 1 - k]]

InsertAt(s, k, e) == SubSeq(s, 1, k - 1) \o <<e>> \o SubSeq(s, k, Len(s))

\* "x_b not in x_final"
Contains(xs, xb) == \E k \in 1..Len(xs) : xs[k] = xb

\* x_final.index(x_b): the first position holding x_b (1-based here)
IndexOf(xs, xb) == CHOOSE k \in 1..Len(xs) : xs[k] = xb /\ \A m \in 1..(k - 1) : xs[m] # xb

\* tuple comparison of sorted(zip(x_final, h_final)): by x, then by h
PairLess(p, q) == p[1] < q[1] \/ (p[1] = q[1] /\ RLess(p[2], q[2]))

RECURSIVE InsertSorted(_, _)
InsertSorted(s, e) ==
    IF s = <<>> THEN <<e>>
    ELSE IF PairLess(e, Last(s)) THEN InsertSorted(SubSeq(s, 1, Len(s) - 1), e) \o <<Last(s)>>
    ELSE s \o <<e>>

RECURSIVE SortedPairs(_)
SortedPairs(s) ==
    IF s = <<>> THEN <<>>
    ELSE InsertSorted(SortedPairs(SubSeq(s, 1, Len(s) - 1)), Last(s))

Zip(xs, hs) == [k \in 1..Len(xs) |-> <<xs[k], hs[k]>>]

Firsts(ps) == [k \in 1..Len(ps) |-> ps[k][1]]

Seconds(ps) == [k \in 1..Len(ps) |-> ps[k][2]]

\* np.interp(xq, xp, fp) for one query point: clamped at both ends, otherwise
\* linear between xp[j] and xp[j+1], j the last index with xp[j] <= xq
Interp(xq, xp, fp) ==
    IF xq > Last(xp) THEN Last(fp)
    ELSE IF xq < xp[1] THEN fp[1]
    ELSE LET j == CHOOSE k \in 1..Len(xp) :
                      xp[k] <= xq /\ \A m \in (k + 1)..Len(xp) : xp[m] > xq
         IN  IF j = Len(xp) THEN fp[j]
             ELSE IF xp[j] = xq THEN fp[j]
             ELSE LET slope == RDiv(RSub(fp[j + 1], fp[j]), R(xp[j + 1] - xp[j]))
                  IN  RAdd(RMul(slope, R(xq - xp[j])), fp[j])

\* ------------------------------------------------------------------------
\* colebrook(Re, D, epsilon, tol=1e-6, max_iter=100)
\*
\* The transcendental part (sqrt, log10) is computed in fixed point: the
\* friction factor is carried with 6 decimals, so "abs(f - f_old) < tol"
\* (tol = 1e-6) is equality of two consecutive iterates; the argument of the
\* logarithm is carried with 8 decimals and log10 with 5.
\* ------------------------------------------------------------------------
MaxIter == 100

RECURSIVE ISqrtIter(_, _, _)
ISqrtIter(n, lo, hi) ==
    IF lo = hi THEN lo
    ELSE LET mid == (lo + hi + 1) \div 2
         IN  IF mid * mid <= n THEN ISqrtIter(n, mid, hi) ELSE ISqrtIter(n, lo, mid - 1)

\* floor(sqrt(n)), n < 2^31
ISqrt(n) == ISqrtIter(n, 0, 46340)

RECURSIVE DecDivQR(_, _, _)
DecDivQR(n, d, k) ==
    IF k = 0 THEN <<n \div d, n % d>>
    ELSE LET p == DecDivQR(n, d, k - 1)
         IN  <<10 * p[1] + (10 * p[2]) \div d, (10 * p[2]) % d>>

\* floor(r * 10^k) of a rational r >= 0
ToFix(r, k) == DecDivQR(r[1], r[2], k)[1]

RECURSIVE FloorLog2(_)
FloorLog2(n) == IF n < 2 THEN 0 ELSE 1 + FloorLog2(n \div 2)

RECURSIVE Pow2(_)
Pow2(k) == IF k = 0 THEN 1 ELSE 2 * Pow2(k - 1)

\* mantissa of n >= 1 in [2^14, 2^15)
Mant(n) ==
    LET e == FloorLog2(n)
    IN  IF e >= 14 THEN n \div Pow2(e - 14) ELSE n * Pow2(14 - e)

RECURSIVE FracBits(_, _)
FracBits(m, k) ==
    IF k = 0 THEN 0
    ELSE LET sq == (m * m) \div 16384
         IN  IF sq >= 32768 THEN Pow2(k - 1) + FracBits(sq \div 2, k - 1)
             ELSE FracBits(sq, k - 1)

\* log2(n) * 2^12 of an integer n >= 1
Log2Fx(n) == FloorLog2(n) * 4096 + FracBits(Mant(n), 12)

\* log10(n) * 10^5 of an integer n >= 1 (log10(2) = 0.30103)
Log10Fx(n) ==
    LET l == Log2Fx(n)
    IN  (l \div 4096) * 30103 + ((l % 4096) * 30103) \div 4096

\* one pass of the loop body: f (6 decimals) -> the next f (6 decimals)
\*   f = (-2*math.log10((epsilon/(3.7*D)) + (2.51/(Re*math.sqrt(f)))))**-2
ColebrookStep(Re, D, epsilon, f6) ==
    LET sf4   == ISqrt(f6 * 100)
        t1    == ToFix(RDiv(epsilon, RMul(<<37, 10>>, D)), 8)
        t2    == ToFix(RDiv(<<251, 100>>, RMul(Re, <<sf4, 10000>>)), 8)
        lg5   == Log10Fx(t1 + t2) - 800000
        x5    == Abs(-2 * lg5)
        a     == x5 \div 1000
        b     == x5 % 1000
        xsq6  == a * a * 100 + (2 * a * b) \div 10 + (b * b) \div 10000
    IN  DecDivQR(1000000, xsq6, 6)[1]

RECURSIVE ColebrookIter(_, _, _, _, _)
ColebrookIter(Re, D, epsilon, f6, iter) ==
    IF iter = 0 THEN f6
    ELSE LET fn == ColebrookStep(Re, D, epsilon, f6)
         IN  IF Abs(fn - f6) < 1 THEN fn
             ELSE ColebrookIter(Re, D, epsilon, fn, iter - 1)

colebrook(Re, D, epsilon) == Norm(ColebrookIter(Re, D, epsilon, 20000, MaxIter), 1000000)

\* ------------------------------------------------------------------------
\* Inputs of the model
\* ------------------------------------------------------------------------
\* a missing head: b.get('head') is None
None == <<0, 0>>

\* terrain segments <<dx, dz>> (dx > 0: distances ascend)
Segs == {<<2, 0>>, <<3, 4>>}

RECURSIVE TerrainX(_, _)
TerrainX(x0, segs) ==
    IF segs = <<>> THEN <<x0>>
    ELSE <<x0>> \o TerrainX(x0 + segs[1][1], Tail(segs))

\* the two columns of the CSV read by pd.read_csv: <<x, z>>
Terrain(z0, segs) ==
    <<TerrainX(0, segs), TerrainX(z0, [k \in 1..Len(segs) |-> <<segs[k][2], 0>>])>>

Terrains == {Terrain(2, segs) : segs \in UNION {[1..n -> Segs] : n \in 1..MaxSegs}}

PumpHeads == {R(-1), R(0), R(2)}

Bombas == [x : (-1)..MaxPumpX, head : PumpHeads]

BombaLists(S) == UNION {[1..n -> S] : n \in 0..MaxBombas}

\* laminar: Re = 3200/981, f = 64/Re = 19.62, so a segment of length L_real loses L_real
FluidoLaminar == [densidad |-> R(3200), viscosidad |-> R(981), velocidad |-> R(1)]

TuberiaLaminar == [diametro |-> R(1), rugosidad |-> <<2, 10000>>]

\* turbulent: water at 1.5 m/s in a 0.1 m pipe, Re = 150000
FluidoTurbulento == [densidad |-> R(1000), viscosidad |-> <<1, 1000>>, velocidad |-> <<3, 2>>]

TuberiaTurbulenta == [diametro |-> <<1, 10>>, rugosidad |-> <<2, 10000>>]

\* Re = 2000 exactly
FluidoUmbral == [densidad |-> R(2000), viscosidad |-> R(1), velocidad |-> R(1)]

\* ------------------------------------------------------------------------
\* State
\* ------------------------------------------------------------------------
VARIABLES
    fn,                 \* the function being run
    pc,                 \* its position
    x, z,               \* terrain columns
    fluido, tuberia,    \* parameter records
    presion_inicial_m, presion_final_m, altura_seguridad, head_bomba,
    bombas,             \* the pump list (argument, then the local re-binding)
    Re, f,              \* Reynolds number and friction factor
    nColebrook,         \* number of calls of colebrook made by this run
    hfs,                \* the segment losses applied, in the order applied
    x_final, h_final,   \* the profile being built
    bombas_result,      \* pumps returned
    i,                  \* loop index
    ultima,             \* the last pump insertion made: <<index, x_b, head>>
    resultado,          \* dict returned by calcular_estado_final_tuberia_con_perdida
    bombas_llamador,    \* the list object the caller passed as bombas
    num_puntos_extra,   \* argument of interpolar_perfil
    x_interp, z_interp, \* the lists interpolar_perfil builds
    session_state,      \* st.session_state: key |-> value
    pagina,             \* the page whose script ran last
    mostrado            \* what that run displayed (None: no result section)

vars == <<fn, pc, x, z, fluido, tuberia, presion_inicial_m, presion_final_m,
          altura_seguridad, head_bomba, bombas, Re, f, nColebrook, hfs,
          x_final, h_final, bombas_result, i, ultima, resultado, bombas_llamador,
          num_puntos_extra, x_interp, z_interp, session_state, pagina, mostrado>>

\* locals of interpolar_perfil
interpolacion == <<num_puntos_extra, x_interp, z_interp>>

\* state of the Streamlit pages
entorno == <<session_state, pagina, mostrado>>

inputs == <<fn, x, z, fluido, tuberia, presion_inicial_m, presion_final_m,
            altura_seguridad, head_bomba>>

\* ------------------------------------------------------------------------
\* Shared pieces of the generators
\* ------------------------------------------------------------------------
\* Re = rho * v * D / mu
Reynolds(rho, v, D, mu) == RDiv(RMul(RMul(rho, v), D), mu)

\* hf = f * (L_real / D) * (v**2) / (2 * G), L_real = math.sqrt(dx**2 + dz**2)
Hf(ff, D, v, dx, dz) ==
    LET L_real == Sqrt(dx * dx + dz * dz)
    IN  RDiv(RMul(RMul(ff, RDiv(R(L_real), D)), RSq(v)), RMul(R(2), G))

\* "Re = rho * v * D / mu" raises ZeroDivisionError for mu = 0, and "64 / Re" for Re = 0
DivisionPorCero(rho, v, D, mu) == mu[1] = 0 \/ Reynolds(rho, v, D, mu)[1] = 0

\* the reverse loop: h_total_rev, built from the final point backwards
RECURSIVE HTotalRev(_, _, _, _, _, _, _)
HTotalRev(x_rev, z_rev, ff, D, v, h0, n) ==
    IF n = 1 THEN <<h0>>
    ELSE LET prev == HTotalRev(x_rev, z_rev, ff, D, v, h0, n - 1)
             dx   == x_rev[n - 1] - x_rev[n]
             dz   == z_rev[n - 1] - z_rev[n]
         IN  Append(prev, RAdd(Last(prev), Hf(ff, D, v, dx, dz)))

\* variant of PerfilReversa that leaves out the final h_total_rev[::-1]
PerfilReversaSinInvertir(xs, zs, ff, D, v, pf) ==
    LET x_rev == Reverse(xs)
        z_rev == Reverse(zs)
    IN  HTotalRev(x_rev, z_rev, ff, D, v, RAdd(pf, R(z_rev[1])), Len(xs))

\* h_list: the no-pump profile in ascending order of x
PerfilReversa(xs, zs, ff, D, v, pf) ==
    LET x_rev == Reverse(xs)
        z_rev == Reverse(zs)
    IN  Reverse(HTotalRev(x_rev, z_rev, ff, D, v, RAdd(pf, R(z_rev[1])), Len(xs)))

\* the segment losses in the order a run applies them (reverse order of the route)
PerdidasReversa(xs, zs, ff, D, v) ==
    LET x_rev == Reverse(xs)
        z_rev == Reverse(zs)
    IN  [k \in 1..(Len(xs) - 1) |->
            Hf(ff, D, v, x_rev[k] - x_rev[k + 1], z_rev[k] - z_rev[k + 1])]

\* the order of sorted(bombas, key=lambda b: b['x']): stable
RECURSIVE InsertByX(_, _)
InsertByX(s, b) ==
    IF s = <<>> THEN <<b>>
    ELSE IF b.x < Last(s).x THEN InsertByX(SubSeq(s, 1, Len(s) - 1), b) \o <<Last(s)>>
    ELSE s \o <<b>>

RECURSIVE SortedByX(_)
SortedByX(s) ==
    IF s = <<>> THEN <<>>
    ELSE InsertByX(SortedByX(SubSeq(s, 1, Len(s) - 1)), Last(s))

\* variant of OrdenarBombas that sorts the caller's list in place (bombas.sort(...))
OrdenarBombasEnSitio(bs) == <<SortedByX(bs), SortedByX(bs)>>

\* bombas = sorted(bombas, key=lambda b: b['x']) (line 160):
\* <<the new list bound to the local name, the list passed in afterwards>>
OrdenarBombas(bs) == <<SortedByX(bs), bs>>

\* lines 169-178: the pump's position is added with the interpolated head when it is
\* not a sample yet, and the samples are re-sorted (as <<x, h>> pairs)
AgregarPunto(xs, hs, x_b) ==
    IF Contains(xs, x_b) THEN SortedPairs(Zip(xs, hs))
    ELSE SortedPairs(Append(Zip(xs, hs), <<x_b, Interp(x_b, xs, hs)>>))

\* lines 185-188: the head just before the pump
HAntes(xs, hs, x_b, idx) == IF idx > 1 THEN Interp(x_b - EPS, xs, hs) ELSE hs[idx]

\* lines 190-198: the pre-jump sample is inserted at idx_bomba, and head is added to
\* the sample after it and to all later ones
Salto(xs, hs, x_b, head, idx) ==
    LET hs3 == InsertAt(hs, idx, HAntes(xs, hs, x_b, idx))
    IN  <<InsertAt(xs, idx, xs[idx]),
          [k \in 1..Len(hs3) |-> IF k >= idx + 1 THEN RAdd(hs3[k], head) ELSE hs3[k]],
          idx>>

\* lines 180-198 on the sorted samples; idx_bomba = x_final.index(x_b)
SaltoEnOrdenado(ps, x_b, head) ==
    Salto(Firsts(ps), Seconds(ps), x_b, head, IndexOf(Firsts(ps), x_b))

\* variant of InsertarSalto that restores the last sample after the insertion
InsertarSaltoRestaurando(xs, hs, x_b, head) ==
    LET r == SaltoEnOrdenado(AgregarPunto(xs, hs, x_b), x_b, head)
        d == RSub(Last(hs), Last(r[2]))
    IN  <<r[1], [k \in 1..Len(r[2]) |-> RAdd(r[2][k], d)], r[3]>>

\* One pump insertion, lines 169-198 (the same statements as lines 214-235 of
\* agregar_bomba): <<x_final, h_final, idx_bomba>> with idx_bomba 1-based
InsertarSalto(xs, hs, x_b, head) == SaltoEnOrdenado(AgregarPunto(xs, hs, x_b), x_b, head)

\* h_final = [h + delta for h in h_final]
Desplazar(hs, delta) == [k \in 1..Len(hs) |-> RAdd(hs[k], delta)]

\* variant of AjusteBomba that returns the insertion without the shift
AjusteBombaSinDesplazar(r, h_final_original) == r

\* lines 237-241: delta = h_final_original - h_final[-1], every sample shifted by it
AjusteBomba(r, h_final_original) ==
    <<r[1], Desplazar(r[2], RSub(h_final_original, Last(r[2]))), r[3]>>

\* agregar_bomba(x_final, h_final, x_b, head): the insertion, then the shift that
\* gives the last sample the head the last sample had on entry
agregar_bomba(xs, hs, x_b, head) == AjusteBomba(InsertarSalto(xs, hs, x_b, head), Last(hs))

\* ------------------------------------------------------------------------
\* generar_perfil_presion(P_geo_csv, fluido, tuberia, presion_final_m, bombas)
\* ------------------------------------------------------------------------
\* f = 64 / Re if Re < 2000 else colebrook(Re, D, epsilon)      (line 136)
FriccionGpp(re, D, epsilon) ==
    IF RLess(re, R(ReLaminar)) THEN RDiv(R(64), re) ELSE colebrook(re, D, epsilon)

UsaColebrookGpp(re) == ~RLess(re, R(ReLaminar))

GppFriccion ==
    /\ fn = "generar_perfil_presion" /\ pc = "friccion"
    /\ IF DivisionPorCero(fluido.densidad, fluido.velocidad, tuberia.diametro, fluido.viscosidad)
       THEN pc' = "error" /\ UNCHANGED <<Re, f, nColebrook>>
       ELSE LET re == Reynolds(fluido.densidad, fluido.velocidad, tuberia.diametro,
                               fluido.viscosidad)
            IN  /\ Re' = re
                /\ f' = FriccionGpp(re, tuberia.diametro, tuberia.rugosidad)
                /\ nColebrook' = nColebrook + (IF UsaColebrookGpp(re) THEN 1 ELSE 0)
                /\ pc' = "reversa"
    /\ UNCHANGED <<inputs, interpolacion, entorno, bombas_llamador, bombas, hfs, x_final, h_final, bombas_result, i, ultima, resultado>>

\* lines 141-163: the no-pump profile, the sorted pump list, the working copies
GppReversa ==
    /\ fn = "generar_perfil_presion" /\ pc = "reversa"
    /\ x_final' = x
    /\ h_final' = PerfilReversa(x, z, f, tuberia.diametro, fluido.velocidad, presion_final_m)
    /\ hfs' = PerdidasReversa(x, z, f, tuberia.diametro, fluido.velocidad)
    /\ LET r == OrdenarBombas(bombas)
       IN  bombas' = r[1] /\ bombas_llamador' = r[2]
    /\ i' = 1
    /\ pc' = "bombas"
    /\ UNCHANGED <<inputs, interpolacion, entorno, Re, f, nColebrook, bombas_result, ultima, resultado>>

\* one pass of "for bomba in bombas" (lines 165-198)
GppInsertar ==
    /\ fn = "generar_perfil_presion" /\ pc = "bombas" /\ i <= Len(bombas)
    /\ LET r == InsertarSalto(x_final, h_final, bombas[i].x, bombas[i].head)
       IN  /\ x_final' = r[1]
           /\ h_final' = r[2]
           /\ ultima' = <<r[3], bombas[i].x, bombas[i].head>>
    /\ i' = i + 1
    /\ UNCHANGED <<inputs, interpolacion, entorno, bombas_llamador, pc, bombas, Re, f, nColebrook, hfs, bombas_result, resultado>>

\* variant of AjusteFinal that returns h_final without the shift
AjusteFinalSinDesplazar(hs, pf, zs) == hs

\* lines 200-204: shift so that the last sample is the final head, return
AjusteFinal(hs, pf, zs) == Desplazar(hs, RSub(RAdd(pf, R(Last(zs))), Last(hs)))

GppAjuste ==
    /\ fn = "generar_perfil_presion" /\ pc = "bombas" /\ i > Len(bombas)
    /\ h_final' = AjusteFinal(h_final, presion_final_m, z)
    /\ pc' = "done"
    /\ UNCHANGED <<inputs, interpolacion, entorno, bombas_llamador, bombas, Re, f, nColebrook, hfs, x_final, bombas_result, i, ultima, resultado>>

NextGpp == GppFriccion \/ GppReversa \/ GppInsertar \/ GppAjuste

InitComun ==
    /\ pc = "friccion"
    /\ Re = R(0) /\ f = R(0) /\ nColebrook = 0 /\ hfs = <<>>
    /\ x_final = <<>> /\ h_final = <<>> /\ bombas_result = <<>>
    /\ i = 0 /\ ultima = <<>> /\ resultado = <<>>
    /\ num_puntos_extra = 0 /\ x_interp = <<>> /\ z_interp = <<>>
    /\ session_state = <<>> /\ pagina = 0 /\ mostrado = None

FinalHeads == {R(0), R(7)}

InitGpp ==
    /\ InitComun
    /\ fn = "generar_perfil_presion"
    /\ \E t \in Terrains : x = t[1] /\ z = t[2]
    /\ \E c \in {<<FluidoLaminar, TuberiaLaminar>>} : fluido = c[1] /\ tuberia = c[2]
    /\ presion_final_m \in FinalHeads
    /\ presion_inicial_m = R(0) /\ altura_seguridad = R(0) /\ head_bomba = R(0)
    /\ bombas \in BombaLists(Bombas)
    /\ bombas_llamador = bombas

SpecGpp == InitGpp /\ [][NextGpp]_vars

\* ------------------------------------------------------------------------
\* generar_perfil_presion_con_bomba_desconocida(P_geo_csv, fluido, tuberia,
\*     presion_inicial_m, presion_final_m, bombas)
\* ------------------------------------------------------------------------
\* f = 64 / Re if Re < 2000 else colebrook(Re, D, epsilon)      (line 277)
FriccionGpd(re, D, epsilon) ==
    IF RLess(re, R(ReLaminar)) THEN RDiv(R(64), re) ELSE colebrook(re, D, epsilon)

UsaColebrookGpd(re) == ~RLess(re, R(ReLaminar))

RECURSIVE Filter(_, _)
Filter(s, conocida) ==
    IF s = <<>> THEN <<>>
    ELSE IF (s[1].head # None) = conocida THEN <<s[1]>> \o Filter(Tail(s), conocida)
    ELSE Filter(Tail(s), conocida)

\* bombas_conocidas = [b for b in bombas if b.get('head') is not None]
BombasConocidas(bs) == Filter(bs, TRUE)

\* bombas_desconocida = [b for b in bombas if b.get('head') is None]
BombasDesconocida(bs) == Filter(bs, FALSE)

GpdFriccion ==
    /\ fn = "generar_perfil_presion_con_bomba_desconocida" /\ pc = "friccion"
    /\ IF DivisionPorCero(fluido.densidad, fluido.velocidad, tuberia.diametro, fluido.viscosidad)
       THEN pc' = "error" /\ UNCHANGED <<Re, f, nColebrook>>
       ELSE LET re == Reynolds(fluido.densidad, fluido.velocidad, tuberia.diametro,
                               fluido.viscosidad)
            IN  /\ Re' = re
                /\ f' = FriccionGpd(re, tuberia.diametro, tuberia.rugosidad)
                /\ nColebrook' = nColebrook + (IF UsaColebrookGpd(re) THEN 1 ELSE 0)
                /\ pc' = "reversa"
    /\ UNCHANGED <<inputs, interpolacion, entorno, bombas_llamador, bombas, hfs, x_final, h_final, bombas_result, i, ultima, resultado>>

\* lines 283-306: the no-pump profile anchored at the final head, the working copies
GpdReversa ==
    /\ fn = "generar_perfil_presion_con_bomba_desconocida" /\ pc = "reversa"
    /\ x_final' = x
    /\ h_final' = PerfilReversa(x, z, f, tuberia.diametro, fluido.velocidad, presion_final_m)
    /\ hfs' = PerdidasReversa(x, z, f, tuberia.diametro, fluido.velocidad)
    /\ bombas_result' = <<>>
    /\ i' = 1
    /\ pc' = "bombas"
    /\ UNCHANGED <<inputs, interpolacion, entorno, bombas_llamador, bombas, Re, f, nColebrook, ultima, resultado>>

\* one pass of "for bomba in bombas_conocidas" (lines 308-310)
GpdConocida ==
    /\ fn = "generar_perfil_presion_con_bomba_desconocida" /\ pc = "bombas"
    /\ i <= Len(BombasConocidas(bombas))
    /\ LET bomba == BombasConocidas(bombas)[i]
           r     == agregar_bomba(x_final, h_final, bomba.x, bomba.head)
       IN  /\ x_final' = r[1]
           /\ h_final' = r[2]
           /\ ultima' = <<r[3], bomba.x, bomba.head>>
           /\ bombas_result' = Append(bombas_result, [x |-> bomba.x, head |-> bomba.head])
    /\ i' = i + 1
    /\ UNCHANGED <<inputs, interpolacion, entorno, bombas_llamador, pc, bombas, Re, f, nColebrook, hfs, resultado>>

\* delta_inicial = h_final[0] - (presion_inicial_m + z[0])     (lines 317-318)
DeltaInicial(hs, pini, zs) == RSub(hs[1], RAdd(pini, R(zs[1])))

\* lines 316-328: the first pump without head gets head = delta_inicial; return
GpdDesconocida ==
    /\ fn = "generar_perfil_presion_con_bomba_desconocida" /\ pc = "bombas"
    /\ i > Len(BombasConocidas(bombas))
    /\ LET delta_inicial == DeltaInicial(h_final, presion_inicial_m, z)
           desc          == BombasDesconocida(bombas)
       IN  IF desc # <<>>
           THEN LET b == desc[1]
                    r == agregar_bomba(x_final, h_final, b.x, delta_inicial)
                IN  /\ x_final' = r[1]
                    /\ h_final' = r[2]
                    /\ ultima' = <<r[3], b.x, delta_inicial>>
                    /\ bombas_result' = Append(bombas_result, [x |-> b.x, head |-> delta_inicial])
           ELSE UNCHANGED <<x_final, h_final, ultima, bombas_result>>
    /\ pc' = "done"
    /\ UNCHANGED <<inputs, interpolacion, entorno, bombas_llamador, bombas, Re, f, nColebrook, hfs, i, resultado>>

NextGpd == GpdFriccion \/ GpdReversa \/ GpdConocida \/ GpdDesconocida

BombasGpd == [x : (-1)..MaxPumpX, head : {R(-1), R(2), None}]

InitGpd ==
    /\ InitComun
    /\ fn = "generar_perfil_presion_con_bomba_desconocida"
    /\ \E t \in Terrains : x = t[1] /\ z = t[2]
    /\ \E c \in {<<FluidoLaminar, TuberiaLaminar>>} : fluido = c[1] /\ tuberia = c[2]
    /\ presion_final_m = R(7)
    /\ presion_inicial_m = R(1)
    /\ altura_seguridad = R(0) /\ head_bomba = R(0)
    /\ bombas \in BombaLists(BombasGpd)
    /\ bombas_llamador = bombas

SpecGpd == InitGpd /\ [][NextGpd]_vars

\* ------------------------------------------------------------------------
\* generar_perfil_con_bombas_automaticas(P_geo_csv, fluido, tuberia,
\*     presion_inicial_m, altura_seguridad, head_bomba, num_puntos_extra=None)
\* ------------------------------------------------------------------------
\* variant of FriccionGpa whose laminar branch includes Re = 2000
FriccionGpaUmbralInclusivo(re, D, epsilon) ==
    IF RLeq(re, R(ReLaminar)) THEN RDiv(R(64), re) ELSE colebrook(re, D, epsilon)

\* f = 64 / Re if Re < 2000 else colebrook(Re, D, epsilon)      (line 361)
FriccionGpa(re, D, epsilon) ==
    IF RLess(re, R(ReLaminar)) THEN RDiv(R(64), re) ELSE colebrook(re, D, epsilon)

UsaColebrookGpa(re) == ~RLess(re, R(ReLaminar))

\* variant of BajoSeguridad with the comparison turned round
BajoSeguridadInvertida(h, zi, margen) == RLeq(margen, RSub(h, R(zi)))

\* variant of BajoSeguridad with a strict comparison
BajoSeguridadEstricta(h, zi, margen) == RLess(RSub(h, R(zi)), margen)

\* "(h - z[i]) <= altura_seguridad"
BajoSeguridad(h, zi, margen) == RLeq(RSub(h, R(zi)), margen)

\* lines 363-378: <<x_final, h_final, bombas>> after the first point
PrimerPunto(xs, zs, pini, margen, hb) ==
    LET h0 == RAdd(pini, R(zs[1]))
    IN  IF BajoSeguridad(h0, zs[1], margen)
        THEN <<<<xs[1], xs[1]>>, <<h0, RAdd(h0, hb)>>, <<[x |-> xs[1], head |-> hb]>>>>
        ELSE <<<<xs[1], xs[1]>>, <<h0, h0>>, <<>>>>

\* one pass of "for i in range(1, len(x))" (lines 381-410), k the 1-based index
Paso(st, xs, zs, ff, D, v, margen, hb, k) ==
    LET hf      == Hf(ff, D, v, xs[k] - xs[k - 1], zs[k] - zs[k - 1])
        h_nueva == RSub(Last(st[2]), hf)
        xs1     == Append(st[1], xs[k])
        hs1     == Append(st[2], h_nueva)
    IN  IF BajoSeguridad(h_nueva, zs[k], margen)
        THEN <<Append(xs1, xs[k]), Append(hs1, RAdd(h_nueva, hb)),
               Append(st[3], [x |-> xs[k], head |-> hb])>>
        ELSE <<xs1, hs1, st[3]>>

RECURSIVE Recorrido(_, _, _, _, _, _, _, _, _)
Recorrido(st, xs, zs, ff, D, v, margen, hb, k) ==
    IF k > Len(xs) THEN st
    ELSE Recorrido(Paso(st, xs, zs, ff, D, v, margen, hb, k), xs, zs, ff, D, v, margen, hb, k + 1)

\* the whole function for given friction factor: <<x_final, h_final, bombas>>
PerfilAutomatico(xs, zs, ff, D, v, pini, margen, hb) ==
    Recorrido(PrimerPunto(xs, zs, pini, margen, hb), xs, zs, ff, D, v, margen, hb, 2)

GpaFriccion ==
    /\ fn = "generar_perfil_con_bombas_automaticas" /\ pc = "friccion"
    /\ IF DivisionPorCero(fluido.densidad, fluido.velocidad, tuberia.diametro, fluido.viscosidad)
       THEN pc' = "error" /\ UNCHANGED <<Re, f, nColebrook>>
       ELSE LET re == Reynolds(fluido.densidad, fluido.velocidad, tuberia.diametro,
                               fluido.viscosidad)
            IN  /\ Re' = re
                /\ f' = FriccionGpa(re, tuberia.diametro, tuberia.rugosidad)
                /\ nColebrook' = nColebrook + (IF UsaColebrookGpa(re) THEN 1 ELSE 0)
                /\ pc' = "primero"
    /\ UNCHANGED <<inputs, interpolacion, entorno, bombas_llamador, bombas, hfs, x_final, h_final, bombas_result, i, ultima, resultado>>

GpaPrimerPunto ==
    /\ fn = "generar_perfil_con_bombas_automaticas" /\ pc = "primero"
    /\ LET st == PrimerPunto(x, z, presion_inicial_m, altura_seguridad, head_bomba)
       IN  x_final' = st[1] /\ h_final' = st[2] /\ bombas_result' = st[3]
    /\ i' = 2
    /\ pc' = "recorrido"
    /\ UNCHANGED <<inputs, interpolacion, entorno, bombas_llamador, bombas, Re, f, nColebrook, hfs, ultima, resultado>>

GpaPaso ==
    /\ fn = "generar_perfil_con_bombas_automaticas" /\ pc = "recorrido" /\ i <= Len(x)
    /\ LET st == Paso(<<x_final, h_final, bombas_result>>, x, z, f, tuberia.diametro,
                      fluido.velocidad, altura_seguridad, head_bomba, i)
       IN  x_final' = st[1] /\ h_final' = st[2] /\ bombas_result' = st[3]
    /\ hfs' = Append(hfs, Hf(f, tuberia.diametro, fluido.velocidad, x[i] - x[i - 1], z[i] - z[i - 1]))
    /\ i' = i + 1
    /\ UNCHANGED <<inputs, interpolacion, entorno, bombas_llamador, pc, bombas, Re, f, nColebrook, ultima, resultado>>

\* line 412: return x_final, h_final, bombas
GpaRetorno ==
    /\ fn = "generar_perfil_con_bombas_automaticas" /\ pc = "recorrido" /\ i > Len(x)
    /\ pc' = "done"
    /\ UNCHANGED <<inputs, interpolacion, entorno, bombas_llamador, bombas, Re, f, nColebrook, hfs, x_final, h_final, bombas_result,
                   i, ultima, resultado>>

NextGpa == GpaFriccion \/ GpaPrimerPunto \/ GpaPaso \/ GpaRetorno

MaxSegsGpa == 3

TerrainsGpa == {Terrain(2, segs) : segs \in UNION {[1..n -> Segs] : n \in 1..MaxSegsGpa}}

MaxMargen == 3

Margenes == {R(m) : m \in 0..MaxMargen}

PresionesIniciales == {R(0), R(2), R(4), R(9)}

HeadsBomba == {R(-1), R(0), R(3), R(7)}

InitGpa ==
    /\ InitComun
    /\ fn = "generar_perfil_con_bombas_automaticas"
    /\ \E t \in TerrainsGpa : x = t[1] /\ z = t[2]
    /\ \E c \in {<<FluidoLaminar, TuberiaLaminar>>} : fluido = c[1] /\ tuberia = c[2]
    /\ presion_final_m = R(0)
    /\ presion_inicial_m \in PresionesIniciales
    /\ altura_seguridad \in Margenes
    /\ head_bomba \in HeadsBomba
    /\ bombas = <<>> /\ bombas_llamador = <<>>

SpecGpa == InitGpa /\ [][NextGpa]_vars

\* ------------------------------------------------------------------------
\* calcular_estado_final_tuberia_con_perdida(fluido, tuberia)
\* ------------------------------------------------------------------------
\* v2 = v1 * (A1 / A2), A = math.pi * D**2 / 4 (pi / 4 cancels in the quotient)
VelocidadFinal(v1, D1, D2) == RMul(v1, RDiv(RSq(D1), RSq(D2)))

\* lines 92-95: if Re < 2000: f = 64 / Re  else: f = colebrook(Re, D2, epsilon)
FriccionEstado(re, D2, epsilon) ==
    IF RLess(re, R(ReLaminar)) THEN RDiv(R(64), re) ELSE colebrook(re, D2, epsilon)

UsaColebrookEstado(re) == ~RLess(re, R(ReLaminar))

\* hL = f * (L / D2) * (v2**2) / (2 * G)
PerdidaCarga(ff, L, D2, v2) == RDiv(RMul(RMul(ff, RDiv(L, D2)), RSq(v2)), RMul(R(2), G))

\* variant of PresionFinal in which the loss is added to the head
PresionFinalSumaPerdida(P1, v1, rho, z1, v2, z2, hL) ==
    LET head1 == RAdd(RAdd(RDiv(P1, RMul(rho, G)), RDiv(RSq(v1), RMul(R(2), G))), z1)
        head2 == RAdd(head1, hL)
    IN  RMul(RMul(rho, G), RSub(RSub(head2, RDiv(RSq(v2), RMul(R(2), G))), z2))

\* lines 101-103: Bernoulli with losses
PresionFinal(P1, v1, rho, z1, v2, z2, hL) ==
    LET head1 == RAdd(RAdd(RDiv(P1, RMul(rho, G)), RDiv(RSq(v1), RMul(R(2), G))), z1)
        head2 == RSub(head1, hL)
    IN  RMul(RMul(rho, G), RSub(RSub(head2, RDiv(RSq(v2), RMul(R(2), G))), z2))

\* lines 70-95: continuity, Reynolds number of the final section, friction factor
EstadoFriccion ==
    /\ fn = "calcular_estado_final_tuberia_con_perdida" /\ pc = "friccion"
    /\ LET v2 == VelocidadFinal(fluido.velocidad, tuberia.diametro_inicial, tuberia.diametro_final)
           re == Reynolds(fluido.densidad, v2, tuberia.diametro_final, fluido.viscosidad)
       IN  /\ Re' = re
           /\ f' = FriccionEstado(re, tuberia.diametro_final, tuberia.rugosidad)
           /\ nColebrook' = nColebrook + (IF UsaColebrookEstado(re) THEN 1 ELSE 0)
    /\ pc' = "bernoulli"
    /\ UNCHANGED <<inputs, interpolacion, entorno, bombas_llamador, bombas, hfs, x_final, h_final, bombas_result, i, ultima, resultado>>

\* lines 97-113: head loss, Bernoulli, the returned dict
EstadoBernoulli ==
    /\ fn = "calcular_estado_final_tuberia_con_perdida" /\ pc = "bernoulli"
    /\ LET v2 == VelocidadFinal(fluido.velocidad, tuberia.diametro_inicial, tuberia.diametro_final)
           hL == PerdidaCarga(f, tuberia.longitud, tuberia.diametro_final, v2)
           P2 == PresionFinal(fluido.presion, fluido.velocidad, fluido.densidad, fluido.altura,
                              v2, tuberia.altura_final, hL)
       IN  /\ resultado' = [presion_final        |-> P2,
                            velocidad_final      |-> v2,
                            altura_presion_final |-> RDiv(P2, RMul(fluido.densidad, G)),
                            perdida_carga        |-> hL,
                            numero_reynolds      |-> Re,
                            factor_friccion      |-> f]
           /\ hfs' = <<hL>>
    /\ pc' = "done"
    /\ UNCHANGED <<inputs, interpolacion, entorno, bombas_llamador, bombas, Re, f, nColebrook, x_final, h_final, bombas_result, i, ultima>>

NextEstado == EstadoFriccion \/ EstadoBernoulli

\* the scenario of tests/test_fluido.py
FluidoTest == [presion |-> R(200000), velocidad |-> <<3, 2>>, densidad |-> R(1000),
               altura |-> R(0), viscosidad |-> <<1, 1000>>]

TuberiaTest == [diametro_inicial |-> <<1, 10>>, diametro_final |-> <<1, 10>>,
                longitud |-> R(50), altura_final |-> R(1), rugosidad |-> <<2, 10000>>]

FluidosEstado ==
    [presion : {R(200000), R(3000)}, velocidad : {<<3, 2>>, R(1)}, densidad : {R(1000), R(2000)},
     altura : {R(0), R(5)}, viscosidad : {<<1, 1000>>, R(1)}]

\* <<diametro_inicial, diametro_final>>
DiametrosEstado == {<<<<1, 10>>, <<1, 10>>>>, <<<<1, 10>>, <<1, 20>>>>, <<R(1), R(1)>>}

TuberiasEstado ==
    {[diametro_inicial |-> d[1], diametro_final |-> d[2], longitud |-> R(50),
      altura_final |-> z2, rugosidad |-> <<2, 10000>>] :
        d \in DiametrosEstado, z2 \in {R(1), R(8)}}

InitEstado ==
    /\ InitComun
    /\ fn = "calcular_estado_final_tuberia_con_perdida"
    /\ fluido \in FluidosEstado
    /\ tuberia \in TuberiasEstado
    /\ x = <<>> /\ z = <<>> /\ bombas = <<>> /\ bombas_llamador = <<>>
    /\ presion_final_m = R(0) /\ presion_inicial_m = R(0)
    /\ altura_seguridad = R(0) /\ head_bomba = R(0)

SpecEstado == InitEstado /\ [][NextEstado]_vars

\* ------------------------------------------------------------------------
\* All four functions, over laminar, threshold and turbulent parameters
\* ------------------------------------------------------------------------
ParametrosFriccion ==
    {<<FluidoLaminar, TuberiaLaminar>>, <<FluidoUmbral, TuberiaLaminar>>,
     <<FluidoTurbulento, TuberiaTurbulenta>>}

InitFriccion ==
    \/ /\ InitComun
       /\ fn \in {"generar_perfil_presion", "generar_perfil_presion_con_bomba_desconocida",
                  "generar_perfil_con_bombas_automaticas"}
       /\ \E t \in Terrains : x = t[1] /\ z = t[2]
       /\ \E c \in ParametrosFriccion : fluido = c[1] /\ tuberia = c[2]
       /\ presion_final_m = R(7)
       /\ presion_inicial_m = R(1)
       /\ altura_seguridad = R(0)
       /\ head_bomba = R(3)
       /\ bombas \in BombaLists([x : {1}, head : {R(2)} \cup
                         (IF fn = "generar_perfil_presion_con_bomba_desconocida"
                          THEN {None} ELSE {})])
       /\ (fn = "generar_perfil_con_bombas_automaticas" => bombas = <<>>)
       /\ bombas_llamador = bombas
    \/ InitEstado

NextFriccion == NextGpp \/ NextGpd \/ NextGpa \/ NextEstado

SpecFriccion == InitFriccion /\ [][NextFriccion]_vars

\* ------------------------------------------------------------------------
\* The three generators over parameters of either sign and zero
\* ------------------------------------------------------------------------
Signos == {-1, 0, 1}

\* the laminar parameters with each of densidad, viscosidad, velocidad, diametro
\* negative, zero or positive (|Re| stays 3200/981, so colebrook is never reached)
ParametrosDominio ==
    {<<[densidad |-> R(3200 * s[1]), viscosidad |-> R(981 * s[2]), velocidad |-> R(s[3])],
       [diametro |-> R(s[4]), rugosidad |-> <<2, 10000>>]>> :
        s \in Signos \X Signos \X Signos \X Signos}

InitDominio ==
    /\ InitComun
    /\ fn \in {"generar_perfil_presion", "generar_perfil_presion_con_bomba_desconocida",
               "generar_perfil_con_bombas_automaticas"}
    /\ \E t \in Terrains : x = t[1] /\ z = t[2]
    /\ \E c \in ParametrosDominio : fluido = c[1] /\ tuberia = c[2]
    /\ presion_final_m = R(7)
    /\ presion_inicial_m = R(1)
    /\ altura_seguridad = R(0)
    /\ head_bomba = R(3)
    /\ bombas \in (IF fn = "generar_perfil_con_bombas_automaticas" THEN {<<>>}
                   ELSE {<<>>, <<[x |-> 1, head |-> R(2)]>>})
    /\ bombas_llamador = bombas

NextDominio == NextGpp \/ NextGpd \/ NextGpa

SpecDominio == InitDominio /\ [][NextDominio]_vars

\* ------------------------------------------------------------------------
\* The two generators that take a pump list, over short lists given in any order
\* ------------------------------------------------------------------------
BombasMixtas(nombre) ==
    [x : 0..2,
     head : {R(-1), R(2)} \cup (IF nombre = "generar_perfil_presion" THEN {} ELSE {None})]

InitBombas ==
    /\ InitComun
    /\ fn \in {"generar_perfil_presion", "generar_perfil_presion_con_bomba_desconocida"}
    /\ \E t \in Terrains : x = t[1] /\ z = t[2]
    /\ fluido = FluidoLaminar /\ tuberia = TuberiaLaminar
    /\ presion_final_m = R(7)
    /\ presion_inicial_m = R(1)
    /\ altura_seguridad = R(0) /\ head_bomba = R(0)
    /\ bombas \in BombaLists(BombasMixtas(fn))
    /\ bombas_llamador = bombas

NextBombas == NextGpp \/ NextGpd

SpecBombas == InitBombas /\ [][NextBombas]_vars

\* ------------------------------------------------------------------------
\* interpolar_perfil(P_geo_csv, num_puntos_extra=10)
\* ------------------------------------------------------------------------
MaxExtra == 2

\* np.linspace(a, b, num) for num >= 2: a + j * (b - a) / (num - 1) for j < num - 1,
\* and b itself as the last value
Linspace(a, b, num) ==
    [j \in 1..num |->
        IF j = num THEN R(b) ELSE RAdd(R(a), RMul(R(b - a), Norm(j - 1, num - 1)))]

\* variant of TramoSinRepetir that keeps the first point of every segment
TramoCompleto(s, seg) == s

\* lines 42-44: "if i > 0: xs = xs[1:]", seg the 1-based number of the segment
TramoSinRepetir(s, seg) == IF seg > 1 THEN Tail(s) ELSE s

\* lines 26-31: the CSV is read, the result lists start empty
InterpLeer ==
    /\ fn = "interpolar_perfil" /\ pc = "leer"
    /\ x_interp' = <<>> /\ z_interp' = <<>>
    /\ i' = 1
    /\ pc' = "segmentos"
    /\ UNCHANGED <<inputs, entorno, bombas_llamador, num_puntos_extra, bombas, Re, f,
                   nColebrook, hfs, x_final, h_final, bombas_result, ultima, resultado>>

\* one pass of "for i in range(len(x) - 1)" (lines 33-47)
InterpSegmento ==
    /\ fn = "interpolar_perfil" /\ pc = "segmentos" /\ i <= Len(x) - 1
    /\ LET xs == Linspace(x[i], x[i + 1], num_puntos_extra + 2)
           zs == Linspace(z[i], z[i + 1], num_puntos_extra + 2)
       IN  /\ x_interp' = x_interp \o TramoSinRepetir(xs, i)
           /\ z_interp' = z_interp \o TramoSinRepetir(zs, i)
    /\ i' = i + 1
    /\ UNCHANGED <<inputs, entorno, bombas_llamador, num_puntos_extra, pc, bombas, Re, f,
                   nColebrook, hfs, x_final, h_final, bombas_result, ultima, resultado>>

\* line 49: return x_interp, z_interp
InterpRetorno ==
    /\ fn = "interpolar_perfil" /\ pc = "segmentos" /\ i > Len(x) - 1
    /\ pc' = "done"
    /\ UNCHANGED <<inputs, interpolacion, entorno, bombas_llamador, bombas, Re, f,
                   nColebrook, hfs, x_final, h_final, bombas_result, i, ultima, resultado>>

NextInterp == InterpLeer \/ InterpSegmento \/ InterpRetorno

InitInterp ==
    /\ fn = "interpolar_perfil" /\ pc = "leer"
    /\ \E t \in TerrainsGpa : x = t[1] /\ z = t[2]
    /\ num_puntos_extra \in 0..MaxExtra
    /\ x_interp = <<>> /\ z_interp = <<>>
    /\ fluido = FluidoLaminar /\ tuberia = TuberiaLaminar
    /\ presion_inicial_m = R(0) /\ presion_final_m = R(0)
    /\ altura_seguridad = R(0) /\ head_bomba = R(0)
    /\ bombas = <<>> /\ bombas_llamador = <<>>
    /\ Re = R(0) /\ f = R(0) /\ nColebrook = 0 /\ hfs = <<>>
    /\ x_final = <<>> /\ h_final = <<>> /\ bombas_result = <<>>
    /\ i = 0 /\ ultima = <<>> /\ resultado = <<>>
    /\ session_state = <<>> /\ pagina = 0 /\ mostrado = None

SpecInterp == InitInterp /\ [][NextInterp]_vars

\* ------------------------------------------------------------------------
\* The Streamlit pages: one action is one run of a page's script
\* (pages/1_Numero_de_bombas_indefinido.py, pages/2_Presion_final_conocida.py)
\* ------------------------------------------------------------------------
\* "for bomba in bombas" of generar_perfil_presion over the sorted list
RECURSIVE InsertarBombas(_, _, _)
InsertarBombas(xs, hs, bs) ==
    IF bs = <<>> THEN <<xs, hs>>
    ELSE CHOOSE fin \in {InsertarBombas(r[1], r[2], Tail(bs)) :
                            r \in {InsertarSalto(xs, hs, bs[1].x, bs[1].head)}} : TRUE

\* the whole of generar_perfil_presion on the terrain <<xs, zs>>: <<x_final, h_final>>
generar_perfil_presion(xs, zs, fl, tu, pf, bs) ==
    CHOOSE fin \in
        {<<r[1], AjusteFinal(r[2], pf, zs)>> :
            r \in {InsertarBombas(xs, h_list, ordenadas) :
                      h_list \in {PerfilReversa(xs, zs, ff, tu.diametro, fl.velocidad, pf) :
                                    ff \in {FriccionGpp(re, tu.diametro, tu.rugosidad) :
                                              re \in {Reynolds(fl.densidad, fl.velocidad,
                                                               tu.diametro, fl.viscosidad)}}},
                      ordenadas \in {SortedByX(bs)}}} : TRUE

\* the whole of generar_perfil_con_bombas_automaticas with num_puntos_extra=None:
\* <<x_final, h_final, bombas>>
generar_perfil_con_bombas_automaticas(xs, zs, fl, tu, pini, margen, hb) ==
    CHOOSE fin \in
        {PerfilAutomatico(xs, zs, ff, tu.diametro, fl.velocidad, pini, margen, hb) :
            ff \in {FriccionGpa(re, tu.diametro, tu.rugosidad) :
                      re \in {Reynolds(fl.densidad, fl.velocidad, tu.diametro,
                                       fl.viscosidad)}}} : TRUE

\* the CSV files of the data folder
Archivos == {"plano.csv", "subida.csv"}

\* P_geo_csv while no file is chosen (falsy, as the None of the pages)
SinArchivo == ""

\* pd.read_csv(P_geo_csv, header=None): the two columns
LeerCsv(archivo) ==
    IF archivo = "plano.csv" THEN Terrain(2, <<<<2, 0>>>>)
    ELSE Terrain(2, <<<<2, 0>>, <<3, 4>>>>)

\* the pump widgets of page 2: num_bombas rows of (distance, head)
BombasPagina == BombaLists([x : 0..1, head : {R(-1), R(2)}])

\* st.session_state.<clave> = valor
Guardar(s, clave, valor) ==
    [c \in DOMAIN s \cup {clave} |-> IF c = clave THEN valor ELSE s[c]]

\* the dict stored after a calculation, as <<x_final, h_final, bombas, archivo>>
Resultado(x_f, h_f, bs, archivo) == <<x_f, h_f, bs, archivo>>

\* truth value of a stored value: None is false, a result dict is true
Verdadero(valor) == valor # None

\* the result section (table and chart) drawn at the end of a run
Mostrar(s) ==
    IF Verdadero(s["resultado_perfil_bombas_indefinido"])
    THEN s["resultado_perfil_bombas_indefinido"] ELSE None

\* the key tested by line 87 of page 2
ClaveRevisadaPagina2 == "resultado_perfil"

\* lines 83-103 of page 1: the call and the dict that is stored
Calculo1(P_geo_csv, pini, margen, hb) ==
    CHOOSE dict \in
        {Resultado(r[1], r[2], r[3], P_geo_csv) :
            r \in {generar_perfil_con_bombas_automaticas(t[1], t[2], FluidoLaminar,
                        TuberiaLaminar, pini, margen, hb) : t \in {LeerCsv(P_geo_csv)}}} : TRUE

\* lines 92-102 of page 2: the call and the dict that is stored
Calculo2(P_geo_csv, pf, bs) ==
    CHOOSE dict \in
        {Resultado(r[1], r[2], bs, P_geo_csv) :
            r \in {generar_perfil_presion(t[1], t[2], FluidoLaminar, TuberiaLaminar, pf, bs) :
                      t \in {LeerCsv(P_geo_csv)}}} : TRUE

\* one run of pages/1_Numero_de_bombas_indefinido.py (lines 77-153)
Pagina1(boton, P_geo_csv, pini, margen, hb) ==
    /\ \E s1 \in {IF "resultado_perfil_bombas_indefinido" \notin DOMAIN session_state
                    THEN Guardar(session_state, "resultado_perfil_bombas_indefinido", None)
                    ELSE session_state} :
         \E s2 \in {IF boton /\ P_geo_csv # SinArchivo
                     THEN Guardar(s1, "resultado_perfil_bombas_indefinido",
                                  Calculo1(P_geo_csv, pini, margen, hb))
                     ELSE s1} :
            /\ session_state' = s2
            /\ mostrado' = Mostrar(s2)
    /\ pagina' = 1
    /\ UNCHANGED <<inputs, interpolacion, bombas_llamador, pc, bombas, Re, f, nColebrook,
                       hfs, x_final, h_final, bombas_result, i, ultima, resultado>>

\* one run of pages/2_Presion_final_conocida.py (lines 86-153)
Pagina2(boton, P_geo_csv, pf, bs) ==
    /\ \E s1 \in {IF ClaveRevisadaPagina2 \notin DOMAIN session_state
                    THEN Guardar(session_state, "resultado_perfil_bombas_indefinido", None)
                    ELSE session_state} :
         \E s2 \in {IF boton /\ P_geo_csv # SinArchivo
                     THEN Guardar(s1, "resultado_perfil_bombas_indefinido",
                                  Calculo2(P_geo_csv, pf, bs))
                     ELSE s1} :
            /\ session_state' = s2
            /\ mostrado' = Mostrar(s2)
    /\ pagina' = 2
    /\ UNCHANGED <<inputs, interpolacion, bombas_llamador, pc, bombas, Re, f, nColebrook,
                       hfs, x_final, h_final, bombas_result, i, ultima, resultado>>

EjecutarPagina1 ==
    \E boton \in BOOLEAN, P_geo_csv \in Archivos \cup {SinArchivo},
       pini \in {R(0), R(4)}, margen \in {R(0), R(3)}, hb \in {R(3), R(7)} :
        Pagina1(boton, P_geo_csv, pini, margen, hb)

EjecutarPagina2 ==
    \E boton \in BOOLEAN, P_geo_csv \in Archivos \cup {SinArchivo},
       pf \in FinalHeads, bs \in BombasPagina :
        Pagina2(boton, P_geo_csv, pf, bs)

NextPaginas == EjecutarPagina1 \/ EjecutarPagina2

\* a new browser session: st.session_state is empty, no page has run
InitPaginas ==
    /\ fn = "paginas" /\ pc = "espera"
    /\ session_state = <<>> /\ pagina = 0 /\ mostrado = None
    /\ x = <<>> /\ z = <<>>
    /\ num_puntos_extra = 0 /\ x_interp = <<>> /\ z_interp = <<>>
    /\ fluido = FluidoLaminar /\ tuberia = TuberiaLaminar
    /\ presion_inicial_m = R(0) /\ presion_final_m = R(0)
    /\ altura_seguridad = R(0) /\ head_bomba = R(0)
    /\ bombas = <<>> /\ bombas_llamador = <<>>
    /\ Re = R(0) /\ f = R(0) /\ nColebrook = 0 /\ hfs = <<>>
    /\ x_final = <<>> /\ h_final = <<>> /\ bombas_result = <<>>
    /\ i = 0 /\ ultima = <<>> /\ resultado = <<>>

SpecPaginas == InitPaginas /\ [][NextPaginas]_vars

\* ------------------------------------------------------------------------
\* Properties
\* ------------------------------------------------------------------------
Terminado(nombre) == fn = nombre /\ pc = "done"

\* C1: the last sample of the profile returned by generar_perfil_presion has head
\* presion_final_m + z[-1], whatever pumps were inserted.
C1_UltimoPuntoEsPresionFinal ==
    Terminado("generar_perfil_presion")
        => Last(h_final) = RAdd(presion_final_m, R(Last(z)))

C1_Witness ==
    /\ Terminado("generar_perfil_presion")
    /\ Len(bombas) = 2
    /\ \E k \in 1..2 : RSign(bombas[k].head) < 0
    /\ \E k \in 1..2 : bombas[k].x > x[1] /\ bombas[k].x < Last(x)
    /\ Last(h_final) = RAdd(presion_final_m, R(Last(z)))

UnaDesconocida == Len(BombasDesconocida(bombas)) = 1

\* C2: with exactly one pump without head, the first sample of the profile returned by
\* generar_perfil_presion_con_bomba_desconocida has head presion_inicial_m + z[0].
C2_PrimerPuntoEsPresionInicial ==
    (Terminado("generar_perfil_presion_con_bomba_desconocida") /\ UnaDesconocida)
        => h_final[1] = RAdd(presion_inicial_m, R(z[1]))

C4_SaltoIgualAlHead ==
    (ultima # <<>>)
        => LET idx == ultima[1]
           IN  /\ x_final[idx] = ultima[2]
               /\ x_final[idx + 1] = ultima[2]
               /\ RSub(h_final[idx + 1], h_final[idx]) = ultima[3]

\* number of pumps generar_perfil_con_bombas_automaticas inserts with a given margin
NumBombas(margen) ==
    Len(PerfilAutomatico(x, z, f, tuberia.diametro, fluido.velocidad,
                         presion_inicial_m, margen, head_bomba)[3])

\* C5: the number of pumps inserted by generar_perfil_con_bombas_automaticas is
\* monotone in altura_seguridad: a larger margin never gives fewer pumps.
C5_BombasMonotonasEnMargen ==
    Terminado("generar_perfil_con_bombas_automaticas")
        => \A m2 \in Margenes :
               RLeq(altura_seguridad, m2) => Len(bombas_result) <= NumBombas(m2)

C5_Witness ==
    /\ Terminado("generar_perfil_con_bombas_automaticas")
    /\ Len(bombas_result) >= 1
    /\ \E m2 \in Margenes : RLess(altura_seguridad, m2) /\ Len(bombas_result) < NumBombas(m2)

\* C6: in the profile returned by generar_perfil_con_bombas_automaticas two consecutive
\* samples share a distance only at a recorded pump (the later one higher by the pump's
\* head), the head does not rise between samples at increasing distance, and the number
\* of samples is the number of terrain points plus the number of pumps.
C6_PerfilEscalonado ==
    Terminado("generar_perfil_con_bombas_automaticas")
        => /\ \A k \in 1..(Len(x_final) - 1) :
                  IF x_final[k] = x_final[k + 1]
                  THEN \E b \in 1..Len(bombas_result) :
                           /\ bombas_result[b].x = x_final[k]
                           /\ RSub(h_final[k + 1], h_final[k]) = bombas_result[b].head
                  ELSE RLeq(h_final[k + 1], h_final[k])
           /\ Len(x_final) = Len(x) + Len(bombas_result)

\* the pumps recorded strictly before terrain point k
BombasAntes(k) == {b \in 1..Len(bombas_result) : bombas_result[b].x < x[k]}

RECURSIVE SumaHf(_)
SumaHf(k) ==
    IF k <= 1 THEN R(0)
    ELSE RAdd(SumaHf(k - 1),
              Hf(f, tuberia.diametro, fluido.velocidad, x[k] - x[k - 1], z[k] - z[k - 1]))

\* head with which the fluid reaches terrain point k: initial head, minus the losses
\* of the segments before k, plus the gains of the pumps before k
AlturaAlLlegar(k) ==
    RAdd(RSub(RAdd(presion_inicial_m, R(z[1])), SumaHf(k)),
         RMul(R(Cardinality(BombasAntes(k))), head_bomba))

\* C7: the pumps returned by generar_perfil_con_bombas_automaticas are exactly the
\* terrain points where the arriving head minus the elevation is <= altura_seguridad,
\* in ascending order, each with head = head_bomba.
C7_BombasDondeCaeElMargen ==
    Terminado("generar_perfil_con_bombas_automaticas")
        => /\ {bombas_result[b].x : b \in 1..Len(bombas_result)}
                = {x[k] : k \in {j \in 1..Len(x) :
                                    RLeq(RSub(AlturaAlLlegar(j), R(z[j])), altura_seguridad)}}
           /\ \A b \in 1..(Len(bombas_result) - 1) : bombas_result[b].x < bombas_result[b + 1].x
           /\ \A b \in 1..Len(bombas_result) : bombas_result[b].head = head_bomba

C7_Witness ==
    /\ Terminado("generar_perfil_con_bombas_automaticas")
    /\ Len(bombas_result) >= 2
    /\ Len(bombas_result) < Len(x)
    /\ bombas_result[1].x = x[1]
    /\ \E j \in 2..Len(x) : RSub(AlturaAlLlegar(j), R(z[j])) = altura_seguridad

\* C8: with no pumps, the heads returned by generar_perfil_presion do not rise along
\* ascending position.
C8_SinBombasNoCreciente ==
    (fn = "generar_perfil_presion" /\ pc \in {"bombas", "done"} /\ bombas = <<>>)
        => \A k \in 1..(Len(h_final) - 1) : RLeq(h_final[k + 1], h_final[k])

C8_Witness ==
    /\ Terminado("generar_perfil_presion")
    /\ bombas = <<>>
    /\ Len(h_final) = 3
    /\ RLess(h_final[3], h_final[2]) /\ RLess(h_final[2], h_final[1])

EntradasPositivas ==
    /\ RSign(fluido.presion) > 0 /\ RSign(fluido.velocidad) > 0 /\ RSign(fluido.densidad) > 0
    /\ RSign(fluido.viscosidad) > 0
    /\ RSign(tuberia.diametro_inicial) > 0 /\ RSign(tuberia.diametro_final) > 0
    /\ RSign(tuberia.longitud) > 0
    /\ RLeq(tuberia.diametro_final, tuberia.diametro_inicial)
    /\ RLeq(fluido.altura, tuberia.altura_final)

\* C9: for positive inputs with diametro_final <= diametro_inicial and
\* altura_final >= altura, calcular_estado_final_tuberia_con_perdida returns
\* presion_final < presion, velocidad_final = velocidad * (D1/D2)^2 > 0 and
\* perdida_carga > 0; in the scenario of the test, Re > 2000 and 0.01 < f < 0.1.
C9_EstadoFinal ==
    Terminado("calcular_estado_final_tuberia_con_perdida")
        => /\ EntradasPositivas
                => /\ RLess(resultado.presion_final, fluido.presion)
                   /\ RSign(resultado.velocidad_final) > 0
                   /\ resultado.velocidad_final
                        = RMul(fluido.velocidad,
                               RSq(RDiv(tuberia.diametro_inicial, tuberia.diametro_final)))
                   /\ RSign(resultado.perdida_carga) > 0
           /\ (fluido = FluidoTest /\ tuberia = TuberiaTest)
                => /\ RLess(R(2000), resultado.numero_reynolds)
                   /\ RLess(<<1, 100>>, resultado.factor_friccion)
                   /\ RLess(resultado.factor_friccion, <<1, 10>>)

C9_Witness ==
    /\ Terminado("calcular_estado_final_tuberia_con_perdida")
    /\ fluido = FluidoTest /\ tuberia = TuberiaTest
    /\ resultado.numero_reynolds = R(150000)
    /\ RLess(resultado.presion_final, fluido.presion)

\* the diameter and roughness the running function passes to the friction rule
DiametroFriccion ==
    IF fn = "calcular_estado_final_tuberia_con_perdida" THEN tuberia.diametro_final
    ELSE tuberia.diametro

\* the segment lengths behind the recorded losses hfs, in the same order
LongitudesAplicadas ==
    IF fn = "generar_perfil_con_bombas_automaticas"
    THEN [k \in 1..Len(hfs) |-> Sqrt((x[k + 1] - x[k]) * (x[k + 1] - x[k])
                                      + (z[k + 1] - z[k]) * (z[k + 1] - z[k]))]
    ELSE [k \in 1..Len(hfs) |->
             LET a == Len(x) + 1 - k
             IN  Sqrt((x[a] - x[a - 1]) * (x[a] - x[a - 1]) + (z[a] - z[a - 1]) * (z[a] - z[a - 1]))]

\* C10: every function that computes a friction factor uses the same rule: for
\* Re < 2000 the factor is 64/Re and colebrook is not called; for Re >= 2000 it is the
\* value of one call of colebrook; the generators apply that one factor to every segment.
C10_ReglaDeRegimen ==
    (pc # "friccion")
        => /\ IF RLess(Re, R(2000))
              THEN f = RDiv(R(64), Re) /\ nColebrook = 0
              ELSE f = colebrook(Re, DiametroFriccion, tuberia.rugosidad) /\ nColebrook = 1
           /\ (fn # "calcular_estado_final_tuberia_con_perdida")
                => \A k \in 1..Len(hfs) :
                       hfs[k] = RDiv(RMul(RMul(f, RDiv(R(LongitudesAplicadas[k]), tuberia.diametro)),
                                          RSq(fluido.velocidad)),
                                     <<981, 50>>)

C10_Witness ==
    /\ fn = "generar_perfil_con_bombas_automaticas" /\ pc = "done"
    /\ Re = R(2000)
    /\ nColebrook = 1
    /\ f = colebrook(Re, tuberia.diametro, tuberia.rugosidad)
    /\ Len(hfs) = 2

\* C11: generar_perfil_presion_con_bomba_desconocida called with more than one pump
\* without head reports an error: it does not return a profile in which only the first
\* of them is resolved.
C11_VariasDesconocidasEsError ==
    (fn = "generar_perfil_presion_con_bomba_desconocida"
        /\ Len(BombasDesconocida(bombas)) > 1)
        => pc # "done"

ParametroNoPositivo ==
    \/ RSign(fluido.viscosidad) <= 0 \/ RSign(fluido.densidad) <= 0
    \/ RSign(fluido.velocidad) <= 0 \/ RSign(tuberia.diametro) <= 0

\* C12: a generator called with a non-positive viscosity, density, diameter or
\* velocity ends in an error and returns no profile.
C12_ParametroNoPositivoEsError ==
    (fn \in {"generar_perfil_presion", "generar_perfil_presion_con_bomba_desconocida",
             "generar_perfil_con_bombas_automaticas"}
        /\ ParametroNoPositivo)
        => pc # "done"

\* number of entries of s equal to v
Veces(s, v) == Cardinality({k \in 1..Len(s) : s[k] = v})

\* what interpolar_perfil returns whatever num_puntos_extra is: the first and last
\* points of the terrain, positions in strictly ascending order, every terrain
\* position exactly once, (n - 1) * (k + 1) + 1 points
PolilineaInterpolada ==
    /\ x_interp[1] = R(x[1]) /\ z_interp[1] = R(z[1])
    /\ Last(x_interp) = R(Last(x)) /\ Last(z_interp) = R(Last(z))
    /\ \A k \in 1..(Len(x_interp) - 1) : RLess(x_interp[k], x_interp[k + 1])
    /\ \A k \in 1..Len(x) : Veces(x_interp, R(x[k])) = 1
    /\ Len(x_interp) = (Len(x) - 1) * (num_puntos_extra + 1) + 1
    /\ Len(z_interp) = Len(x_interp)

\* C13 as stated: for every terrain of n >= 2 points and every num_puntos_extra >= 0
\* the polyline returned by interpolar_perfil is strictly longer than the terrain, is
\* ascending, has the terrain's first and last points and holds every shared endpoint
\* once.
C13_PolilineaMasLarga ==
    Terminado("interpolar_perfil")
        => PolilineaInterpolada /\ Len(x_interp) > Len(x)

\* C13, amended: the polyline returned by interpolar_perfil has the terrain's first and
\* last points, is ascending, holds every terrain point once and has
\* (n - 1) * (k + 1) + 1 points; it is strictly longer than the terrain exactly when
\* num_puntos_extra >= 1, and for num_puntos_extra = 0 it is the terrain itself.
C13_PolilineaInterpolada ==
    Terminado("interpolar_perfil")
        => /\ PolilineaInterpolada
           /\ (Len(x_interp) > Len(x)) <=> (num_puntos_extra >= 1)
           /\ (num_puntos_extra = 0)
                => /\ x_interp = [k \in 1..Len(x) |-> R(x[k])]
                   /\ z_interp = [k \in 1..Len(z) |-> R(z[k])]

C13_Witness ==
    /\ Terminado("interpolar_perfil")
    /\ num_puntos_extra = 0
    /\ Len(x) = 3
    /\ Len(x_interp) = 3

\* C14: no step of generar_perfil_presion or generar_perfil_presion_con_bomba_desconocida
\* changes the pump list the caller passed (length, order, positions, heads, missing
\* heads) nor the fluid and pipe records.
C14_EntradasSinModificar ==
    [][/\ bombas_llamador' = bombas_llamador
       /\ fluido' = fluido
       /\ tuberia' = tuberia]_vars

C14_Witness ==
    /\ Terminado("generar_perfil_presion")
    /\ Len(bombas_llamador) = 2
    /\ bombas_llamador[1].x > bombas_llamador[2].x
    /\ bombas = <<bombas_llamador[2], bombas_llamador[1]>>

\* the re-sort of the next insertion leaves the current samples where they are
ReordenNeutro == SortedPairs(Zip(x_final, h_final)) = Zip(x_final, h_final)

RECURSIVE SinPosicion(_, _)
SinPosicion(ps, x_b) ==
    IF ps = <<>> THEN <<>>
    ELSE IF ps[1][1] = x_b THEN SinPosicion(Tail(ps), x_b)
    ELSE <<ps[1]>> \o SinPosicion(Tail(ps), x_b)

\* the re-sort made when a pump at x_b is inserted into the current profile returns the
\* current samples in their current order (with the new point, if x_b was no sample)
ReordenConserva(x_b) ==
    LET ps == AgregarPunto(x_final, h_final, x_b)
    IN  IF Contains(x_final, x_b) THEN ps = Zip(x_final, h_final)
        ELSE SinPosicion(ps, x_b) = Zip(x_final, h_final)

\* C15: every re-sort made while a pump is inserted orders the samples by position
\* only and keeps samples at one position in their previous order, so the pre-jump
\* sample of an earlier pump stays before its post-jump sample.
C15_ReordenPorPosicion ==
    [][/\ GppInsertar => ReordenConserva(bombas[i].x)
       /\ GpdConocida => ReordenConserva(BombasConocidas(bombas)[i].x)
       /\ (GpdDesconocida /\ BombasDesconocida(bombas) # <<>>)
            => ReordenConserva(BombasDesconocida(bombas)[1].x)]_vars

\* the head with which the fluid leaves terrain point k: the last sample at x[k]
AlturaAlSalir(k) ==
    h_final[CHOOSE j \in 1..Len(x_final) :
                x_final[j] = x[k] /\ \A m \in (j + 1)..Len(x_final) : x_final[m] # x[k]]

\* C17: with head_bomba > 0, in the profile returned by
\* generar_perfil_con_bombas_automaticas the head with which the fluid leaves every
\* terrain point, minus the elevation there, is strictly greater than altura_seguridad.
C17_SiempreSobreElMargen ==
    (Terminado("generar_perfil_con_bombas_automaticas") /\ RSign(head_bomba) > 0)
        => \A k \in 1..Len(x) :
               RLess(altura_seguridad, RSub(AlturaAlSalir(k), R(z[k])))

RECURSIVE Suma(_)
Suma(s) == IF s = <<>> THEN R(0) ELSE RAdd(s[1], Suma(Tail(s)))

\* C18: in the profile returned by generar_perfil_presion the head of the first sample
\* is the head of the last sample plus all segment losses minus all pump heads.
C18_BalanceDeEnergia ==
    Terminado("generar_perfil_presion")
        => h_final[1] = RSub(RAdd(Last(h_final), Suma(hfs)),
                             Suma([k \in 1..Len(bombas) |-> bombas[k].head]))

\* a run of page 2 in which the calculate button is not pressed
Pagina2SinCalcular ==
    \E P_geo_csv \in Archivos \cup {SinArchivo}, pf \in FinalHeads, bs \in BombasPagina :
        Pagina2(FALSE, P_geo_csv, pf, bs)

\* a run of page 1 in which the calculate button is not pressed
Pagina1SinCalcular ==
    \E P_geo_csv \in Archivos \cup {SinArchivo},
       pini \in {R(0), R(4)}, margen \in {R(0), R(3)}, hb \in {R(3), R(7)} :
        Pagina1(FALSE, P_geo_csv, pini, margen, hb)

\* a result dict is stored in the session
HayResultado ==
    /\ "resultado_perfil_bombas_indefinido" \in DOMAIN session_state
    /\ Verdadero(session_state["resultado_perfil_bombas_indefinido"])

\* the run leaves the stored result in place and displays it
ResultadoPersiste ==
    /\ session_state'["resultado_perfil_bombas_indefinido"]
         = session_state["resultado_perfil_bombas_indefinido"]
    /\ mostrado' = session_state["resultado_perfil_bombas_indefinido"]

\* C19: once a result is stored, every run of page 2 (as of page 1) in which the
\* calculate button is not pressed keeps the stored result and displays it; a
\* rerun never resets it to None.
C19_ResultadoPersisteEnRerun ==
    [][((Pagina2SinCalcular \/ Pagina1SinCalcular) /\ HayResultado) => ResultadoPersiste]_vars

====
